---- MODULE Spec2Model ----
(***************************************************************************)
(* Ask YouTube: the streaming chat turn.                                   *)
(*                                                                         *)
(* Client side (TypeScript, frontend/): handleSSEStream reading the SSE    *)
(* response body chunk by chunk, ChatContainer (message list, streaming    *)
(* flags, retry), ChatInput (submit guard), ThreadPage (history load).     *)
(* Server side (Python, backend/): the Answer Orchestrator, the            *)
(* Conversation State Store and the Streaming Response Emitter.            *)
(*                                                                         *)
(* A response body is a sequence of symbols: the line break characters,    *)
(* the space, the `data:` field name and whole JSON / non-JSON payload     *)
(* texts.  Message contents are sequences of text pieces, so that          *)
(* concatenating tokens is sequence concatenation.                         *)
(***************************************************************************)
EXTENDS Integers, Sequences, FiniteSets, TLC

\* ------------------------------------------------------------------ bounds
MaxTurns == 2
MaxChunk == 2
MaxRawLines == 2
MaxTokens == 2
MaxAppends == 3
MaxRows == 2
MaxInits == 3
ChunkSize == 2
MaxThreads == 2
MaxClock == 4
MaxLoads == 2

\* ------------------------------------------------------- wire symbols
LF == "\n"
CR == "\r"
SP == " "
DATA == "data:"
DoneMarker == "[DONE]"
BadJson == "{\"type\":\"tok"
TokThe == "{\"type\":\"token\",\"content\":\"The \"}"
TokVideo == "{\"type\":\"token\",\"content\":\"video \"}"
TokBlank == "{\"type\":\"token\",\"content\":\" \"}"
TokEmpty == "{\"type\":\"token\",\"content\":\"\"}"
TokNum == "{\"type\":\"token\",\"content\":7}"
EndPlain == "{\"type\":\"end\"}"
ErrorEv == "{\"type\":\"error\",\"message\":\"generation failed\"}"
ErrorRetrieval == "{\"type\":\"error\",\"message\":\"retrieval failed\"}"
ErrorPersistence == "{\"type\":\"error\",\"message\":\"persistence failed\"}"
SourcesEv == "{\"type\":\"sources\",\"chunks\":[]}"

EndWithId(n) ==
  CASE n = 0 -> "{\"type\":\"end\",\"message_id\":0}"
    [] n = 1 -> "{\"type\":\"end\",\"message_id\":1}"
    [] n = 2 -> "{\"type\":\"end\",\"message_id\":2}"
    [] n = 3 -> "{\"type\":\"end\",\"message_id\":3}"
    [] n = 4 -> "{\"type\":\"end\",\"message_id\":4}"
    [] n = 5 -> "{\"type\":\"end\",\"message_id\":5}"
    [] n = 6 -> "{\"type\":\"end\",\"message_id\":6}"
    [] n = 7 -> "{\"type\":\"end\",\"message_id\":7}"
    [] n = 8 -> "{\"type\":\"end\",\"message_id\":8}"
    [] OTHER -> "{\"type\":\"end\",\"message_id\":9}"

TokenTexts == {TokThe, TokVideo, TokBlank, TokEmpty}
EndTexts == {EndPlain} \cup {EndWithId(n) : n \in 0..9}
ErrorTexts == {ErrorEv, ErrorRetrieval, ErrorPersistence}

\* the `message` member of an error event
MessageOf(text) ==
  CASE text = ErrorEv -> "generation failed"
    [] text = ErrorRetrieval -> "retrieval failed"
    [] text = ErrorPersistence -> "persistence failed"
    [] OTHER -> ""

\* String.prototype.trim strips these from both ends.
Whitespace == {SP, CR, LF}

\* ------------------------------------------------------- text pieces
NoText == <<>>
TextOf(tok) ==
  CASE tok = TokThe -> <<"The ">>
    [] tok = TokVideo -> <<"video ">>
    [] tok = TokBlank -> <<" ">>
    [] tok = TokEmpty -> <<>>
    [] OTHER -> NoText

BlankPieces == {" "}

\* s.trim() is the empty string
IsBlank(s) == \A i \in 1..Len(s) : s[i] \in BlankPieces

\* ------------------------------------------------------- JSON.parse
\* The result of JSON.parse on a payload text: whether it parses, the
\* `type` member and the `content` member when it is a string.
JSONparse(text) ==
  CASE text \in TokenTexts ->
         [ok |-> TRUE, type |-> "token", strContent |-> TRUE, content |-> TextOf(text)]
    [] text = TokNum ->
         [ok |-> TRUE, type |-> "token", strContent |-> FALSE, content |-> NoText]
    [] text \in EndTexts ->
         [ok |-> TRUE, type |-> "end", strContent |-> FALSE, content |-> NoText]
    [] text \in ErrorTexts ->
         [ok |-> TRUE, type |-> "error", strContent |-> FALSE, content |-> NoText]
    [] text = SourcesEv ->
         [ok |-> TRUE, type |-> "sources", strContent |-> FALSE, content |-> NoText]
    [] OTHER ->
         [ok |-> FALSE, type |-> "none", strContent |-> FALSE, content |-> NoText]

\* ------------------------------------------------------- string helpers
RECURSIVE TrimStart(_)
TrimStart(s) ==
  IF s # <<>> /\ Head(s) \in Whitespace THEN TrimStart(Tail(s)) ELSE s

RECURSIVE TrimEnd(_)
TrimEnd(s) ==
  IF s # <<>> /\ s[Len(s)] \in Whitespace
    THEN TrimEnd(SubSeq(s, 1, Len(s) - 1))
    ELSE s

Trim(s) == TrimEnd(TrimStart(s))

\* buffer.split(/\r?\n/): the pieces between line breaks, a CR directly
\* before the LF belonging to the break.  Always at least one piece.
RECURSIVE SplitFrom(_, _, _)
SplitFrom(s, i, cur) ==
  IF i > Len(s) THEN <<cur>>
  ELSE IF s[i] = LF THEN <<cur>> \o SplitFrom(s, i + 1, <<>>)
  ELSE IF s[i] = CR /\ i < Len(s) /\ s[i + 1] = LF
         THEN <<cur>> \o SplitFrom(s, i + 2, <<>>)
  ELSE SplitFrom(s, i + 1, Append(cur, s[i]))

SplitLines(s) == SplitFrom(s, 1, <<>>)

RECURSIVE Concat(_)
Concat(ss) == IF ss = <<>> THEN <<>> ELSE Head(ss) \o Concat(Tail(ss))


\* ------------------------------------------------------------ state
VARIABLES
  \* ThreadPage / ChatContainer (React state)
  view,              \* "page": ThreadPage is loading; "chat": ChatContainer is mounted
  hasSummary,        \* thread.summary is a non-empty string
  messages,          \* ChatContainer.messages
  isLoading,         \* ChatContainer.isLoading
  isStreaming,       \* ChatContainer.isStreaming
  streamingContent,  \* ChatContainer.streamingContent
  error,             \* ChatContainer.error
  aiContent,         \* the `aiContent` local of the running handleSendMessage
  isSubmitting,      \* ChatInput.isSubmitting
  \* handleSSEStream
  hpc,               \* "idle" | "fetch" | "errbody" | "read"
  buffer,            \* the `buffer` local
  isCompleted,       \* the `isCompleted` local
  readerLocked,      \* the reader holds the lock of response.body
  \* the HTTP exchange of the running request
  req,               \* the POSTed content the server has not picked up yet
  resp,              \* "none" | "ok" | "notok" | "nobody": the response head
  wire,              \* body symbols sent and not yet read
  closed,            \* the server has ended the body
  \* history of the running invocation
  turnNo,            \* number of handleSendMessage calls so far
  userPos,           \* index in `messages` of the running turn's user message
  calls,             \* the callbacks handleSSEStream has made, in order
  rcvd,              \* the body symbols reader.read() has returned
  splitCRLF,         \* a chunk has ended between the \r and the \n of a line break
  sawDone,           \* reader.read() has returned done
  caught,            \* name of the error the outer catch caught
  signalAborted,     \* the AbortSignal passed to fetch was aborted
  completions,       \* number of invocations so far that called onComplete
  \* backend: Answer Orchestrator and Conversation State Store
  ostate,            \* orchestrator state of the conversation's current turn
  oconn,             \* the request (turn number) the orchestrator serves
  ohuman,            \* sequence number of the turn's human message
  otokens,           \* tokens the LLM has produced in this turn
  ofailed,           \* the LLM failed mid-stream in this turn
  oretried,          \* retrieval has been retried in this turn
  ocontext,          \* what retrieval returned in this turn
  oevents,           \* AnswerEvents emitted in this turn
  tokensOut,         \* number of tokens the LLM has produced over all turns
  store,             \* message log of the conversation
  checkpoints,       \* checkpoint log of the conversation
  \* the arbitrary server of SpecStream
  rawLines,          \* number of body pieces it has sent so far
  \* the concurrent callers of SpecStore
  appenders,         \* per caller: its pending append_message call, its finished calls
  \* backend databases: app.db and checkpoints.db
  app_threads,       \* thread_id of the rows of app.db `threads`
  app_messages,      \* per thread_id: number of rows of app.db `messages`
  ckpt_rows,         \* per thread_id: number of rows of checkpoints.db `checkpoints`
  deleted,           \* thread ids that DELETE /threads/{id} has deleted
  \* ingestion: POST /chat/init
  yt_video,          \* rows of app.db `yt_video`, in insertion order
  chroma,            \* documents of the ChromaDB collections, in insertion order
  inits,             \* per request: its position in the process and its video
  initsStarted,      \* number of POST /chat/init requests so far
  added,             \* per video: number of times its chunks were handed to ChromaDB
  \* chat context (ChatProvider) and the threads of the server
  threads,           \* ChatState.threads
  activeThreadId,    \* ChatState.activeThreadId
  loadThreads,       \* the provider's thread-list load: its position and the list it fetched
  srvThreads,        \* the server's threads, in creation order
  route,             \* the thread of the page shown, NoThread on /chat
  visited,           \* thread ids of the pages in this tab's history
  threadLoads,       \* thread ids of the loadThreadData calls that have not settled
  clock              \* the time

pageVars == <<view, hasSummary>>
chatVars == <<messages, isLoading, isStreaming, streamingContent, error, aiContent, isSubmitting>>
handlerVars == <<hpc, buffer, isCompleted, readerLocked>>
netVars == <<req, resp, wire, closed>>
histVars == <<turnNo, userPos, calls, rcvd, splitCRLF, sawDone, caught, signalAborted,
              completions>>
orchVars == <<ostate, oconn, ohuman, otokens, ofailed, oretried, ocontext, oevents, tokensOut>>
storeVars == <<store, checkpoints>>
coreVars == <<pageVars, chatVars, handlerVars, netVars, histVars, orchVars, storeVars, rawLines,
              appenders>>
deleteVars == <<app_threads, app_messages, ckpt_rows, deleted>>
ingestVars == <<yt_video, chroma, inits, initsStarted, added>>
contextVars == <<threads, activeThreadId, loadThreads, srvThreads, route, visited, clock,
                 threadLoads>>
sideVars == <<deleteVars, ingestVars, contextVars>>
vars == <<coreVars, sideVars>>

\* ------------------------------------------------------------ values
NullError == "<null>"
\* What the user types into the input box, message after message; the last
\* text is typed again from then on.
UserScript == <<"Hello", "Continue">>
NoRequest == "<none>"

\* message_id values: the history index, a crypto.randomUUID(), or one of
\* the two fixed ids of ChatContainer.
ServerId(n) == <<"index", n>>
Uuid(n) == <<"uuid", n>>
WelcomeId == <<"welcome-message", 0>>
StreamingId == <<"streaming-message", 0>>

WelcomeText == <<"Hi! I've processed the video.">>

\* Error objects: the class decides `instanceof`, the name the AbortError test.
ErrorObj(class, name, message) == [class |-> class, name |-> name, message |-> message]
FetchFailures == {ErrorObj("TypeError", "TypeError", "Failed to fetch"),
                  ErrorObj("TypeError", "TypeError", "Load failed")}
ReadFailures == {ErrorObj("TypeError", "TypeError", "network error")}
AbortError == ErrorObj("DOMException", "AbortError", "The operation was aborted.")
\* errorData.detail || errorData.message || `HTTP ${status}: ${statusText}`
\* isNull: the body is the JSON text `null`, which response.json() resolves with.
ErrorBodies == {[detail |-> "Thread not found", message |-> "", isNull |-> FALSE],
                [detail |-> "", message |-> "Bad request", isNull |-> FALSE],
                [detail |-> "", message |-> "", isNull |-> FALSE],
                [detail |-> "", message |-> "", isNull |-> TRUE]}
\* the TypeError of reading a property of null
NullDetailError ==
  ErrorObj("TypeError", "TypeError", "Cannot read properties of null (reading 'detail')")
HttpStatusText == "HTTP 500: Internal Server Error"

networkError == "Unable to connect to the server. Please check your connection and try again."

\* errors.ts errorMessages
errorMessages ==
  [invalidUrl |-> "Hmm, that doesn't look like a valid YouTube URL. Could you try again? Example: https://www.youtube.com/watch?v=xxxxx",
   noTranscript |-> "Unfortunately, this video doesn't have captions available. I need captions to chat about the content. Try another video?",
   processingFailed |-> "I had trouble processing that video. This could be temporary. Want to try again?",
   streamingError |-> "Oops! My response got interrupted. Let me try that again.",
   networkError |-> networkError,
   unknownError |-> "Something went wrong. Please try again.",
   threadNotFound |-> "This chat thread could not be found.",
   videoTooLong |-> "Video is too long. Maximum allowed duration is 20 minutes.",
   rateLimited |-> "Too many requests. Please wait a moment and try again."]

\* error.message.includes("fetch"), on the messages of the model
IncludesFetch(message) == message \in {"Failed to fetch"}

\* errors.ts getErrorMessage; an ApiError carries a statusCode, and every
\* error value of the model is an instance of Error.
getErrorMessage(e) ==
  IF e.class = "ApiError"
    THEN CASE e.statusCode = 400 -> errorMessages.invalidUrl
           [] e.statusCode = 404 -> errorMessages.threadNotFound
           [] e.statusCode = 413 -> errorMessages.videoTooLong
           [] e.statusCode = 422 -> errorMessages.noTranscript
           [] e.statusCode = 429 -> errorMessages.rateLimited
           [] e.statusCode = 500 -> errorMessages.processingFailed
           [] OTHER -> IF e.message # "" THEN e.message ELSE errorMessages.unknownError
    ELSE IF e.class = "TypeError" /\ IncludesFetch(e.message)
      THEN errorMessages.networkError
      ELSE e.message


\* ------------------------------------------------- history read model
\* types.ts Message / MessageResponse
Msg(id, sender, content, metadata) ==
  [message_id |-> id, sender |-> sender, content |-> content, metadata |-> metadata]

Stored(seq, role, content, metadata) ==
  [message_id |-> seq, role |-> role, content |-> content, metadata |-> metadata]

\* list_messages / GET /threads/{id}/messages: full replay in sequence order
list_messages(log) == log

\* A mapping that shows only role "ai" as sender "ai".
MapMessageAiOnly(m) ==
  Msg(ServerId(m.message_id),
      IF m.role = "ai" THEN "ai" ELSE "user",
      m.content,
      IF m.metadata = "null" THEN "undefined" ELSE m.metadata)

\* The mapping of loadHistory and of ThreadPage.loadMessages / loadThreadData:
\* role "human" becomes sender "user", any other role "ai"; `metadata ?? undefined`.
MapMessage(m) ==
  Msg(ServerId(m.message_id),
      IF m.role = "human" THEN "user" ELSE "ai",
      m.content,
      IF m.metadata = "null" THEN "undefined" ELSE m.metadata)

MapHistory(response) == [i \in 1..Len(response) |-> MapMessage(response[i])]

\* The welcome effect: a loaded, empty list of a thread with a summary
\* becomes the one welcome message.
WelcomeEffect(msgs, loading) ==
  IF ~loading /\ Len(msgs) = 0 /\ hasSummary
    THEN <<Msg(WelcomeId, "ai", WelcomeText, "undefined")>>
    ELSE msgs

\* ------------------------------------------------- ChatContainer
Truthy(e) == e # NullError /\ e # ""

displayMessages ==
  IF (isStreaming \/ Truthy(error)) /\ streamingContent # <<>>
    THEN Append(messages,
                Msg(StreamingId, "ai", streamingContent,
                    IF Truthy(error) THEN "{error:true}" ELSE "undefined"))
    ELSE messages

\* A Retry button that is shown whether or not there is an error.
RetryAlwaysShown == ~isLoading /\ Len(displayMessages) # 0

\* ChatMessages renders the error block with the Retry button
RetryShown == ~isLoading /\ Len(displayMessages) # 0 /\ Truthy(error)

\* ChatInput: canSubmit (for a non-blank input within the length limit)
\* and not isSubmitting
CanSubmit == ~(isLoading \/ isStreaming) /\ ~isSubmitting

\* The callbacks handleSendMessage passes to handleSSEStream, as functions
\* of the container state c.
Chat == [messages |-> messages, isStreaming |-> isStreaming,
         streamingContent |-> streamingContent, error |-> error,
         aiContent |-> aiContent]

\* A token handler that shows the last token instead of the answer so far.
onTokenReplaces(c, token) ==
  [c EXCEPT !.aiContent = @ \o token, !.streamingContent = token]

onToken(c, token) ==
  [c EXCEPT !.aiContent = @ \o token, !.streamingContent = c.aiContent \o token]

\* A completion that commits the answer without its blank pieces.
onCompleteTrimmed(c) ==
  [c EXCEPT !.isStreaming = FALSE,
            !.streamingContent = <<>>,
            !.messages = IF ~IsBlank(c.aiContent)
                           THEN Append(@, Msg(Uuid(2 * turnNo), "ai",
                                              SelectSeq(c.aiContent,
                                                        LAMBDA x : x \notin BlankPieces),
                                              "undefined"))
                           ELSE @]

\* A completion that commits the answer whatever its content.
onCompleteAlways(c) ==
  [c EXCEPT !.isStreaming = FALSE,
            !.streamingContent = <<>>,
            !.messages = Append(@, Msg(Uuid(2 * turnNo), "ai", c.aiContent, "undefined"))]

onComplete(c) ==
  [c EXCEPT !.isStreaming = FALSE,
            !.streamingContent = <<>>,
            !.messages = IF ~IsBlank(c.aiContent)
                           THEN Append(@, Msg(Uuid(2 * turnNo), "ai", c.aiContent, "undefined"))
                           ELSE @]

\* An error handler that leaves the streaming flag set.
onErrorStillStreaming(c, err) ==
  [c EXCEPT !.error = getErrorMessage(err)]

\* An error handler that takes the optimistic user message back.
onErrorRollback(c, err) ==
  [c EXCEPT !.error = getErrorMessage(err), !.isStreaming = FALSE,
            !.messages = SubSeq(@, 1, Len(@) - 1)]

onError(c, err) ==
  [c EXCEPT !.error = getErrorMessage(err), !.isStreaming = FALSE]

NoErr == ErrorObj("", "", "")
Call(cb, arg, err) == [cb |-> cb, arg |-> arg, err |-> err]

Callback(c, call) ==
  CASE call.cb = "onToken" -> onToken(c, call.arg)
    [] call.cb = "onComplete" -> onComplete(c)
    [] call.cb = "onError" -> onError(c, call.err)

RECURSIVE ApplyCalls(_, _)
ApplyCalls(c, cs) ==
  IF cs = <<>> THEN c ELSE ApplyCalls(Callback(c, Head(cs)), Tail(cs))

\* The callbacks cs are made: the container state follows, the log grows.
Invoke(cs) ==
  LET c == ApplyCalls(Chat, cs) IN
    /\ messages' = c.messages
    /\ isStreaming' = c.isStreaming
    /\ streamingContent' = c.streamingContent
    /\ error' = c.error
    /\ aiContent' = c.aiContent
    /\ calls' = calls \o cs
    /\ completions' = completions + (IF \E i \in 1..Len(cs) : cs[i].cb = "onComplete"
                                       THEN 1 ELSE 0)

\* ------------------------------------------------- handleSSEStream
\* processLine: the callback a line leads to, if any.
processLine(line) ==
  LET trimmedLine == Trim(line) IN
    IF trimmedLine = <<>> \/ Head(trimmedLine) # DATA THEN <<>>
    ELSE LET data == Trim(Tail(trimmedLine)) IN
      IF data = <<>> \/ data = <<DoneMarker>> THEN <<>>
      ELSE LET event == IF Len(data) = 1 THEN JSONparse(data[1]) ELSE JSONparse("") IN
        IF event.ok /\ event.type = "token" /\ event.strContent
          THEN <<Call("onToken", event.content, NoErr)>>
        ELSE IF event.ok /\ event.type = "end"
          THEN <<Call("onComplete", NoText, NoErr)>>
        ELSE <<>>

Completes(cs) == \E i \in 1..Len(cs) : cs[i].cb = "onComplete"

\* A loop over the lines without the break at isCompleted.
RECURSIVE processLinesAll(_)
processLinesAll(lines) ==
  IF lines = <<>> THEN <<>>
  ELSE processLine(Head(lines)) \o processLinesAll(Tail(lines))

\* for (const line of lines) { processLine(line); if (isCompleted) break; }
RECURSIVE processLines(_)
processLines(lines) ==
  IF lines = <<>> THEN <<>>
  ELSE LET cs == processLine(Head(lines)) IN
    IF Completes(cs) THEN cs ELSE cs \o processLines(Tail(lines))

\* A reader that forgets the unfinished line between two chunks.
KeptBufferDropped(lines) == <<>>

\* buffer = lines.pop() || ""
KeptBuffer(lines) == lines[Len(lines)]

\* The function returns: the promise ChatInput.handleSubmit awaits settles.
Return ==
  /\ hpc' = "idle"
  /\ isSubmitting' = FALSE

\* The outer catch: an AbortError returns silently, any other error goes
\* to onError.
Catch(e) ==
  /\ caught' = e.name
  /\ IF e.name = "AbortError"
       THEN UNCHANGED <<messages, isStreaming, streamingContent, error, aiContent, calls,
                        completions>>
       ELSE Invoke(<<Call("onError", <<e.message>>, e)>>)
  /\ Return


\* ------------------------------------------------- client actions
\* ThreadPage: loadMessages / loadThreadData settle and ChatContainer mounts
\* with initialMessages (empty when the request failed).
ThreadPageLoaded(ok) ==
  /\ view = "page"
  /\ LET initialMessages == IF ok THEN MapHistory(list_messages(store)) ELSE <<>> IN
       /\ messages' = initialMessages
       /\ isLoading' = (Len(initialMessages) = 0)
  /\ view' = "chat"
  /\ UNCHANGED <<hasSummary, isStreaming, streamingContent, error, aiContent, isSubmitting,
                 handlerVars, netVars, histVars, orchVars, storeVars, rawLines, appenders, sideVars>>

\* ChatContainer.loadHistory settles (it runs only when initialMessages is empty).
HistoryLoaded(ok) ==
  /\ view = "chat"
  /\ isLoading
  /\ messages' = WelcomeEffect(IF ok THEN MapHistory(list_messages(store)) ELSE messages, FALSE)
  /\ isLoading' = FALSE
  /\ UNCHANGED <<pageVars, isStreaming, streamingContent, error, aiContent, isSubmitting,
                 handlerVars, netVars, histVars, orchVars, storeVars, rawLines, appenders, sideVars>>

\* A send that leaves the error of the send before in place.
handleSendMessageKeepsError(base, content) ==
  /\ messages' = Append(base, Msg(Uuid(2 * turnNo + 1), "user", <<content>>, "undefined"))
  /\ isStreaming' = TRUE
  /\ streamingContent' = <<>>
  /\ error' = error
  /\ aiContent' = <<>>
  /\ hpc' = "fetch"
  /\ buffer' = <<>>
  /\ isCompleted' = FALSE
  /\ readerLocked' = FALSE
  /\ req' = content
  /\ resp' = "none"
  /\ wire' = <<>>
  /\ closed' = FALSE
  /\ turnNo' = turnNo + 1
  /\ userPos' = Len(base) + 1
  /\ calls' = <<>>
  /\ rcvd' = <<>>
  /\ splitCRLF' = FALSE
  /\ sawDone' = FALSE
  /\ caught' = "none"
  /\ signalAborted' = FALSE
  /\ UNCHANGED completions

\* handleSendMessage(content), the list being `base` when it is called.
handleSendMessage(base, content) ==
  /\ messages' = Append(base, Msg(Uuid(2 * turnNo + 1), "user", <<content>>, "undefined"))
  /\ isStreaming' = TRUE
  /\ streamingContent' = <<>>
  /\ error' = NullError
  /\ aiContent' = <<>>
  /\ hpc' = "fetch"
  /\ buffer' = <<>>
  /\ isCompleted' = FALSE
  /\ readerLocked' = FALSE
  /\ req' = content
  /\ resp' = "none"
  /\ wire' = <<>>
  /\ closed' = FALSE
  /\ turnNo' = turnNo + 1
  /\ userPos' = Len(base) + 1
  /\ calls' = <<>>
  /\ rcvd' = <<>>
  /\ splitCRLF' = FALSE
  /\ sawDone' = FALSE
  /\ caught' = "none"
  /\ signalAborted' = FALSE
  /\ UNCHANGED completions

\* The trimmed input of the next submit.
NextInput ==
  UserScript[IF turnNo < Len(UserScript) THEN turnNo + 1 ELSE Len(UserScript)]

\* ChatInput.handleSubmit (the submit button or the Enter key)
Submit ==
  /\ view = "chat"
  /\ CanSubmit
  /\ turnNo < MaxTurns
  /\ isSubmitting' = TRUE
  /\ handleSendMessage(messages, NextInput)
  /\ UNCHANGED <<pageVars, isLoading, orchVars, storeVars, rawLines, appenders, sideVars>>

LastUserIndex(msgs) ==
  IF \E i \in 1..Len(msgs) : msgs[i].sender = "user"
    THEN CHOOSE i \in 1..Len(msgs) :
           /\ msgs[i].sender = "user"
           /\ \A j \in (i + 1)..Len(msgs) : msgs[j].sender # "user"
    ELSE 0

\* ChatContainer.handleRetry (the Retry button of the error block)
handleRetry ==
  /\ view = "chat"
  /\ RetryShown
  /\ turnNo < MaxTurns
  /\ LET index == LastUserIndex(messages) IN
       IF index > 0
         THEN /\ handleSendMessage(SubSeq(messages, 1, index), messages[index].content[1])
              /\ UNCHANGED <<pageVars, isLoading, isSubmitting, orchVars, storeVars, rawLines, appenders, sideVars>>
         ELSE UNCHANGED vars

\* fetch() rejects: the network failed before the response head arrived.
FetchRejects(e) ==
  /\ hpc = "fetch"
  /\ Catch(e)
  /\ UNCHANGED <<pageVars, isLoading, buffer, isCompleted, readerLocked, netVars,
                 turnNo, userPos, rcvd, splitCRLF, sawDone, signalAborted, orchVars, storeVars,
                 rawLines, appenders, sideVars>>

\* fetch() resolves with the response head.
FetchResolves ==
  /\ hpc = "fetch"
  /\ resp # "none"
  /\ CASE resp = "ok" ->
            /\ hpc' = "read"
            /\ readerLocked' = TRUE
            /\ UNCHANGED <<chatVars, calls, caught, completions>>
       [] resp = "notok" ->
            /\ hpc' = "errbody"
            /\ UNCHANGED <<chatVars, readerLocked, calls, caught, completions>>
       [] resp = "nobody" ->
            /\ Catch(ErrorObj("Error", "Error", "No response body"))
            /\ UNCHANGED <<isLoading, readerLocked>>
  /\ UNCHANGED <<pageVars, buffer, isCompleted, netVars,
                 turnNo, userPos, rcvd, splitCRLF, sawDone, signalAborted, orchVars, storeVars,
                 rawLines, appenders, sideVars>>

\* response.json().catch(() => ({})) settles for a non-OK response, then the
\* Error is thrown.  An unreadable body counts as the empty object.
ErrorBodyRead(errorData) ==
  /\ hpc = "errbody"
  /\ LET message == IF errorData.detail # "" THEN errorData.detail
                    ELSE IF errorData.message # "" THEN errorData.message
                    ELSE HttpStatusText IN
       Catch(IF errorData.isNull THEN NullDetailError
             ELSE ErrorObj("Error", "Error", message))
  /\ UNCHANGED <<pageVars, isLoading, buffer, isCompleted, readerLocked, netVars,
                 turnNo, userPos, rcvd, splitCRLF, sawDone, signalAborted, orchVars, storeVars,
                 rawLines, appenders, sideVars>>

\* A reader that splits each chunk by itself, without the piece kept from
\* the chunk before.
ReadChunkAlone(k) ==
  /\ hpc = "read"
  /\ k \in 1..Len(wire)
  /\ k <= MaxChunk \/ k = Len(wire)
  /\ LET value == SubSeq(wire, 1, k)
         lines == SplitLines(value)
         cs == processLines(SubSeq(lines, 1, Len(lines) - 1)) IN
       /\ wire' = SubSeq(wire, k + 1, Len(wire))
       /\ rcvd' = rcvd \o value
       /\ splitCRLF' = (splitCRLF \/ (wire[k] = CR /\ k < Len(wire) /\ wire[k + 1] = LF))
       /\ buffer' = KeptBuffer(lines)
       /\ Invoke(cs)
       /\ IF Completes(cs)
            THEN /\ isCompleted' = TRUE
                 /\ readerLocked' = FALSE
                 /\ Return
            ELSE UNCHANGED <<isCompleted, readerLocked, hpc, isSubmitting>>
  /\ UNCHANGED <<pageVars, isLoading, req, resp, closed,
                 turnNo, userPos, sawDone, caught, signalAborted, orchVars, storeVars, rawLines, appenders, sideVars>>

\* What one reader.read() result does: decode, split, keep the last piece,
\* process the lines up to the end event.
ReadChunk(k) ==
  /\ hpc = "read"
  /\ k \in 1..Len(wire)
  /\ k <= MaxChunk \/ k = Len(wire)
  /\ LET value == SubSeq(wire, 1, k)
         lines == SplitLines(buffer \o value)
         cs == processLines(SubSeq(lines, 1, Len(lines) - 1)) IN
       /\ wire' = SubSeq(wire, k + 1, Len(wire))
       /\ rcvd' = rcvd \o value
       /\ splitCRLF' = (splitCRLF \/ (wire[k] = CR /\ k < Len(wire) /\ wire[k + 1] = LF))
       /\ buffer' = KeptBuffer(lines)
       /\ Invoke(cs)
       /\ IF Completes(cs)
            THEN /\ isCompleted' = TRUE
                 /\ readerLocked' = FALSE
                 /\ Return
            ELSE UNCHANGED <<isCompleted, readerLocked, hpc, isSubmitting>>
  /\ UNCHANGED <<pageVars, isLoading, req, resp, closed,
                 turnNo, userPos, sawDone, caught, signalAborted, orchVars, storeVars, rawLines, appenders, sideVars>>

\* A reader whose end of body is not a completion.
ReadDoneSilent ==
  /\ hpc = "read"
  /\ wire = <<>>
  /\ closed
  /\ sawDone' = TRUE
  /\ LET cs == IF buffer # <<>> THEN processLine(buffer) ELSE <<>> IN
       /\ isCompleted' = Completes(cs)
       /\ Invoke(cs)
  /\ readerLocked' = FALSE
  /\ Return
  /\ UNCHANGED <<pageVars, isLoading, buffer, netVars,
                 turnNo, userPos, rcvd, splitCRLF, caught, signalAborted, orchVars, storeVars,
                 rawLines, appenders, sideVars>>

\* reader.read() returns done: the rest of the buffer is processed, the lock
\* released, and onComplete called unless the end event already did.
ReadDone ==
  /\ hpc = "read"
  /\ wire = <<>>
  /\ closed
  /\ sawDone' = TRUE
  /\ LET cs == IF buffer # <<>> THEN processLine(buffer) ELSE <<>> IN
       /\ isCompleted' = Completes(cs)
       /\ Invoke(IF Completes(cs) THEN cs ELSE cs \o <<Call("onComplete", NoText, NoErr)>>)
  /\ readerLocked' = FALSE
  /\ Return
  /\ UNCHANGED <<pageVars, isLoading, buffer, netVars,
                 turnNo, userPos, rcvd, splitCRLF, caught, signalAborted, orchVars, storeVars,
                 rawLines, appenders, sideVars>>

\* reader.read() rejects: the connection broke while the body was read.
ReadRejects(e) ==
  /\ hpc = "read"
  /\ readerLocked' = FALSE
  /\ Catch(e)
  /\ UNCHANGED <<pageVars, isLoading, buffer, isCompleted, netVars,
                 turnNo, userPos, rcvd, splitCRLF, sawDone, signalAborted, orchVars, storeVars,
                 rawLines, appenders, sideVars>>

\* The caller aborts the signal: the pending fetch() or reader.read() rejects
\* with an AbortError; a pending response.json() rejects too, and its catch
\* turns that into the empty object.
Aborted ==
  /\ hpc \in {"fetch", "errbody", "read"}
  /\ signalAborted' = TRUE
  /\ readerLocked' = FALSE
  /\ IF hpc = "errbody"
       THEN Catch(ErrorObj("Error", "Error", HttpStatusText))
       ELSE Catch(AbortError)
  /\ UNCHANGED <<pageVars, isLoading, buffer, isCompleted, netVars,
                 turnNo, userPos, rcvd, splitCRLF, sawDone, orchVars, storeVars,
                 rawLines, appenders, sideVars>>

ClientStep ==
  \/ \E ok \in BOOLEAN : ThreadPageLoaded(ok)
  \/ \E ok \in BOOLEAN : HistoryLoaded(ok)
  \/ Submit
  \/ handleRetry
  \/ \E e \in FetchFailures : FetchRejects(e)
  \/ FetchResolves
  \/ \E errorData \in ErrorBodies : ErrorBodyRead(errorData)
  \/ \E k \in 1..Len(wire) : ReadChunk(k)
  \/ ReadDone
  \/ \E e \in ReadFailures : ReadRejects(e)

\* ------------------------------------------------- an arbitrary server
\* Any response head and any body made of these lines, for the claims about
\* handleSSEStream alone.
Frame(payload) == <<DATA, SP, payload, LF, LF>>

RawPieces ==
  { <<DATA, SP, TokThe, LF>>,
    <<DATA, TokVideo, CR, LF>>,
    <<DATA, SP, TokBlank>>,
    <<DATA, SP, TokEmpty, LF>>,
    <<DATA, SP, EndPlain, LF>>,
    <<DATA, SP, ErrorEv, LF>>,
    <<DATA, SP, TokNum, LF>>,
    <<DATA, SP, DoneMarker, LF>>,
    <<DATA, BadJson, LF>>,
    <<TokThe, LF>>,
    <<LF>> }

\* The server answers the request: the head, and for an OK response a body
\* of n pieces, which the reader then gets in chunks of any size.
RawRespond(head, n, body) ==
  /\ req # NoRequest
  /\ rawLines + n <= MaxRawLines
  /\ head # "ok" => n = 0
  /\ Len(body) = n
  /\ req' = NoRequest
  /\ resp' = head
  /\ wire' = Concat(body)
  /\ closed' = TRUE
  /\ rawLines' = rawLines + n
  /\ UNCHANGED <<pageVars, chatVars, handlerVars, histVars, orchVars, storeVars, appenders,
                 sideVars>>

RawServerStep ==
  /\ req # NoRequest
  /\ \E head \in {"ok", "notok", "nobody"}, n \in 0..(MaxRawLines - rawLines) :
       \E body \in [1..n -> RawPieces] : RawRespond(head, n, body)

\* ------------------------------------------------- callers of the store
Callers == {"a", "b"}
AppendInputs == {[role |-> "human", content |-> <<"Hello">>],
                 [role |-> "ai", content |-> <<"The ">>]}
NoCall == [pc |-> "idle", role |-> "", content |-> NoText, seen |-> 0, done |-> 0]

\* ------------------------------------------------- threads of the databases
Conversations == {"c1", "c2"}

\* ------------------------------------------------- ingestion requests
Videos == {"v1", "v2"}
Requests == {"r1", "r2"}
NoInit == [pc |-> "idle", video |-> ""]

\* ------------------------------------------------- chat context
NoThread == 0

\* ------------------------------------------------- initial state
\* The thread the page shows: a new one (with or without a summary), or one
\* with a stored history.
History ==
  <<Stored(0, "human", <<"Hello">>, "null"),
    Stored(1, "tool", <<"video ">>, "null"),
    Stored(2, "ai", <<"The ">>, "{error:true}")>>

InitialThreads ==
  { [store |-> <<>>, checkpoints |-> <<>>, summary |-> TRUE],
    [store |-> <<>>, checkpoints |-> <<>>, summary |-> FALSE],
    [store |-> History,
     checkpoints |-> <<[checkpoint_id |-> 0, state |-> History]>>,
     summary |-> FALSE] }

Init ==
  /\ view = "page"
  /\ messages = <<>>
  /\ isLoading = TRUE
  /\ isStreaming = FALSE
  /\ streamingContent = <<>>
  /\ error = NullError
  /\ aiContent = <<>>
  /\ isSubmitting = FALSE
  /\ hpc = "idle"
  /\ buffer = <<>>
  /\ isCompleted = FALSE
  /\ readerLocked = FALSE
  /\ req = NoRequest
  /\ resp = "none"
  /\ wire = <<>>
  /\ closed = FALSE
  /\ turnNo = 0
  /\ userPos = 0
  /\ calls = <<>>
  /\ rcvd = <<>>
  /\ splitCRLF = FALSE
  /\ sawDone = FALSE
  /\ caught = "none"
  /\ signalAborted = FALSE
  /\ completions = 0
  /\ ostate = "IDLE"
  /\ oconn = 0
  /\ ohuman = 0
  /\ otokens = <<>>
  /\ ofailed = FALSE
  /\ oretried = FALSE
  /\ ocontext = "none"
  /\ oevents = <<>>
  /\ tokensOut = 0
  /\ \E h \in InitialThreads :
       store = h.store /\ checkpoints = h.checkpoints /\ hasSummary = h.summary
  /\ rawLines = 0
  /\ appenders = [c \in Callers |-> NoCall]
  /\ app_threads = {}
  /\ app_messages = [c \in Conversations |-> 0]
  /\ ckpt_rows = [c \in Conversations |-> 0]
  /\ deleted = {}
  /\ yt_video = <<>>
  /\ chroma = <<>>
  /\ inits = [r \in Requests |-> NoInit]
  /\ initsStarted = 0
  /\ added = [v \in Videos |-> 0]
  /\ threads = <<>>
  /\ activeThreadId = NoThread
  /\ loadThreads = [pc |-> "sent", threads |-> <<>>]
  /\ srvThreads = <<>>
  /\ route = NoThread
  /\ visited = {}
  /\ clock = 0
  /\ threadLoads = <<>>

\* handleSSEStream against an arbitrary server and an arbitrary signal,
\* called by a mounted ChatContainer of a thread without history.
InitStream ==
  /\ Init
  /\ store = <<>>
  /\ ~hasSummary

NextStream == ClientStep \/ Aborted \/ RawServerStep

SpecStream == InitStream /\ [][NextStream]_vars


\* ------------------------------------------------- Conversation State Store
\* A sequence counter that hands out the last number again.
NextSequenceReused(log) == IF log = <<>> THEN 0 ELSE log[Len(log)].message_id

\* append_message: atomic append, assigns the next sequence number.
NextSequence(log) == Len(log)

append_message(log, role, content, metadata) ==
  Append(log, Stored(NextSequence(log), role, content, metadata))

\* A checkpoint save that is lost.
save_checkpoint_lost(cps, state) == cps

\* save_checkpoint: the orchestration state is the message list as the LLM
\* sees it.
save_checkpoint(cps, state) == Append(cps, [checkpoint_id |-> Len(cps), state |-> state])

\* K callers append to one conversation at the same time.  A call is
\* issued, and takes effect at its serialization point, in any order.
RECURSIVE Finished(_)
Finished(cs) ==
  IF cs = {} THEN 0
  ELSE LET c == CHOOSE x \in cs : TRUE IN appenders[c].done + Finished(cs \ {c})

Pending == {c \in Callers : appenders[c].pc = "pending"}

AppendCall(c, input) ==
  /\ appenders[c].pc = "idle"
  /\ Finished(Callers) + Cardinality(Pending) < MaxAppends
  /\ appenders' = [appenders EXCEPT ![c] = [pc |-> "pending", role |-> input.role,
                                            content |-> input.content,
                                            seen |-> NextSequence(store),
                                            done |-> @.done]]
  /\ UNCHANGED <<pageVars, chatVars, handlerVars, netVars, histVars, orchVars, storeVars,
                 rawLines, sideVars>>

AppendCommit(c) ==
  /\ appenders[c].pc = "pending"
  /\ store' = append_message(store, appenders[c].role, appenders[c].content, "null")
  /\ appenders' = [appenders EXCEPT ![c] = [NoCall EXCEPT !.done = appenders[c].done + 1]]
  /\ UNCHANGED <<pageVars, chatVars, handlerVars, netVars, histVars, orchVars, checkpoints,
                 rawLines, sideVars>>

InitStore ==
  /\ Init
  /\ store = <<>>
  /\ ~hasSummary

NextStore ==
  \/ \E c \in Callers, input \in AppendInputs : AppendCall(c, input)
  \/ \E c \in Callers : AppendCommit(c)

SpecStore == InitStore /\ [][NextStore]_vars

\* ------------------------------------------------- Answer Orchestrator
LLMTokens == {<<"The ">>, <<" ">>}

AnswerEvent(type, content, id, kind) ==
  [type |-> type, content |-> content, message_id |-> id, kind |-> kind]
TokenEvent(content) == AnswerEvent("token", content, -1, "")
EndEvent(id) == AnswerEvent("end", NoText, id, "")
ErrorEvent(kind) == AnswerEvent("error", NoText, -1, kind)

\* Streaming Response Emitter: one `data: <json>` line and a blank line per event.
Encode(ev) ==
  CASE ev.type = "token" -> CHOOSE t \in TokenTexts : TextOf(t) = ev.content
    [] ev.type = "end" -> EndWithId(ev.message_id)
    [] ev.kind = "RetrievalFailed" -> ErrorRetrieval
    [] ev.kind = "PersistenceFailed" -> ErrorPersistence
    [] OTHER -> ErrorEv

\* The client of the turn's request is still waiting for the response.
Connected == oconn = turnNo /\ hpc \in {"fetch", "read"}

\* The events evs are emitted; `last` ends the body.
Emit(evs, last) ==
  /\ oevents' = oevents \o evs
  /\ IF Connected
       THEN /\ wire' = wire \o Concat([i \in 1..Len(evs) |-> Frame(Encode(evs[i]))])
            /\ closed' = (closed \/ last)
       ELSE UNCHANGED <<wire, closed>>

Busy == ostate \in {"RETRIEVING", "GENERATING", "PERSISTING"}

\* IDLE -> RETRIEVING: the turn starts once the conversation's previous turn is
\* over; the checkpoint is loaded and the human message appended at once.
OrchBegin ==
  /\ req # NoRequest
  /\ ~Busy
  /\ store' = append_message(store, "human", <<req>>, "null")
  /\ ohuman' = NextSequence(store)
  /\ ostate' = "RETRIEVING"
  /\ oconn' = turnNo
  /\ otokens' = <<>>
  /\ ofailed' = FALSE
  /\ oretried' = FALSE
  /\ ocontext' = "none"
  /\ oevents' = <<>>
  /\ req' = NoRequest
  /\ resp' = "ok"
  /\ UNCHANGED <<pageVars, chatVars, handlerVars, wire, closed, histVars, tokensOut,
                 checkpoints, rawLines, appenders, sideVars>>

\* The HTTP layer turns the request down (NotFoundError): a non-OK response.
OrchReject ==
  /\ req # NoRequest
  /\ ~Busy
  /\ req' = NoRequest
  /\ resp' = "notok"
  /\ UNCHANGED <<pageVars, chatVars, handlerVars, wire, closed, histVars, orchVars,
                 storeVars, rawLines, appenders, sideVars>>

\* A retrieval that takes the empty sequence for a failure.
OrchRetrieveEmptyFails(outcome) ==
  /\ ostate = "RETRIEVING"
  /\ CASE outcome = "fragments" ->
            /\ ostate' = "GENERATING"
            /\ ocontext' = outcome
            /\ UNCHANGED <<oretried, oevents, wire, closed>>
       [] outcome = "failed" /\ ~oretried ->
            /\ oretried' = TRUE
            /\ UNCHANGED <<ostate, ocontext, oevents, wire, closed>>
       [] OTHER ->
            /\ ostate' = "ERRORED"
            /\ Emit(<<ErrorEvent("RetrievalFailed")>>, TRUE)
            /\ ocontext' = IF outcome = "empty" THEN outcome ELSE ocontext
            /\ UNCHANGED oretried
  /\ UNCHANGED <<pageVars, chatVars, handlerVars, req, resp, histVars, oconn, ohuman,
                 otokens, ofailed, tokensOut, storeVars, rawLines, appenders, sideVars>>

\* A retrieval whose final failure takes the turn's human message back.
OrchRetrieveRollback(outcome) ==
  /\ ostate = "RETRIEVING"
  /\ CASE outcome \in {"fragments", "empty"} ->
            /\ ostate' = "GENERATING"
            /\ ocontext' = outcome
            /\ UNCHANGED <<oretried, oevents, wire, closed, store>>
       [] outcome = "failed" /\ ~oretried ->
            /\ oretried' = TRUE
            /\ UNCHANGED <<ostate, ocontext, oevents, wire, closed, store>>
       [] OTHER ->
            /\ ostate' = "ERRORED"
            /\ Emit(<<ErrorEvent("RetrievalFailed")>>, TRUE)
            /\ store' = SubSeq(store, 1, ohuman)
            /\ UNCHANGED <<oretried, ocontext>>
  /\ UNCHANGED <<pageVars, chatVars, handlerVars, req, resp, histVars, oconn, ohuman,
                 otokens, ofailed, tokensOut, checkpoints, rawLines, appenders, sideVars>>

\* RETRIEVING: fragments or the empty sequence lead to GENERATING; a failure
\* is retried once, then the turn is ERRORED with RetrievalFailed.
OrchRetrieve(outcome) ==
  /\ ostate = "RETRIEVING"
  /\ CASE outcome \in {"fragments", "empty"} ->
            /\ ostate' = "GENERATING"
            /\ ocontext' = outcome
            /\ UNCHANGED <<oretried, oevents, wire, closed>>
       [] outcome = "failed" /\ ~oretried ->
            /\ oretried' = TRUE
            /\ UNCHANGED <<ostate, ocontext, oevents, wire, closed>>
       [] OTHER ->
            /\ ostate' = "ERRORED"
            /\ Emit(<<ErrorEvent("RetrievalFailed")>>, TRUE)
            /\ UNCHANGED <<oretried, ocontext>>
  /\ UNCHANGED <<pageVars, chatVars, handlerVars, req, resp, histVars, oconn, ohuman,
                 otokens, ofailed, tokensOut, storeVars, rawLines, appenders, sideVars>>

\* GENERATING: each token of the LLM is emitted at once.
OrchToken(t) ==
  /\ ostate = "GENERATING"
  /\ tokensOut < MaxTokens
  /\ tokensOut' = tokensOut + 1
  /\ otokens' = Append(otokens, t)
  /\ Emit(<<TokenEvent(t)>>, FALSE)
  /\ UNCHANGED <<pageVars, chatVars, handlerVars, req, resp, histVars, ostate, oconn, ohuman,
                 ofailed, oretried, ocontext, storeVars, rawLines, appenders, sideVars>>

\* The LLM stream ends and `end` is emitted before the answer is persisted.
OrchGeneratedEarlyEnd ==
  /\ ostate = "GENERATING"
  /\ ostate' = "PERSISTING"
  /\ Emit(<<EndEvent(NextSequence(store))>>, FALSE)
  /\ UNCHANGED <<pageVars, chatVars, handlerVars, req, resp, histVars, oconn, ohuman, otokens,
                 ofailed, oretried, ocontext, tokensOut, storeVars, rawLines, appenders, sideVars>>

\* The LLM stream ends.
OrchGenerated ==
  /\ ostate = "GENERATING"
  /\ ostate' = "PERSISTING"
  /\ UNCHANGED <<pageVars, chatVars, handlerVars, netVars, histVars, oconn, ohuman, otokens,
                 ofailed, oretried, ocontext, oevents, tokensOut, storeVars, rawLines, appenders, sideVars>>

\* The LLM call fails: before the first token the turn is ERRORED with
\* GenerationFailed; after it the partial content goes on to PERSISTING.
OrchGenerationFails ==
  /\ ostate = "GENERATING"
  /\ IF otokens = <<>>
       THEN /\ ostate' = "ERRORED"
            /\ Emit(<<ErrorEvent("GenerationFailed")>>, TRUE)
            /\ UNCHANGED ofailed
       ELSE /\ ostate' = "PERSISTING"
            /\ ofailed' = TRUE
            /\ UNCHANGED <<oevents, wire, closed>>
  /\ UNCHANGED <<pageVars, chatVars, handlerVars, req, resp, histVars, oconn, ohuman, otokens,
                 oretried, ocontext, tokensOut, storeVars, rawLines, appenders, sideVars>>

\* PERSISTING -> DONE: the assistant message and the checkpoint are written
\* together, then the terminal event is emitted: `end` with the message's
\* sequence number, or for a partial answer `end` or `error`.
OrchPersisted(terminal) ==
  /\ ostate = "PERSISTING"
  /\ terminal = "error" => ofailed
  /\ LET log == append_message(store, "ai", Concat(otokens),
                               IF ofailed THEN "{error:true}" ELSE "{}") IN
       /\ store' = log
       /\ checkpoints' = save_checkpoint(checkpoints, log)
  /\ ostate' = "DONE"
  /\ Emit(<<IF terminal = "end" THEN EndEvent(NextSequence(store))
            ELSE ErrorEvent("GenerationFailed")>>, TRUE)
  /\ UNCHANGED <<pageVars, chatVars, handlerVars, req, resp, histVars, oconn, ohuman, otokens,
                 ofailed, oretried, ocontext, tokensOut, rawLines, appenders, sideVars>>

\* PERSISTING -> ERRORED: nothing is written, PersistenceFailed is reported.
OrchPersistenceFails ==
  /\ ostate = "PERSISTING"
  /\ ostate' = "ERRORED"
  /\ Emit(<<ErrorEvent("PersistenceFailed")>>, TRUE)
  /\ UNCHANGED <<pageVars, chatVars, handlerVars, req, resp, histVars, oconn, ohuman, otokens,
                 ofailed, oretried, ocontext, tokensOut, storeVars, rawLines, appenders, sideVars>>

OrchStep ==
  \/ OrchBegin
  \/ OrchReject
  \/ \E outcome \in {"fragments", "empty", "failed"} : OrchRetrieve(outcome)
  \/ \E t \in LLMTokens : OrchToken(t)
  \/ OrchGenerated
  \/ OrchGenerationFails
  \/ \E terminal \in {"end", "error"} : OrchPersisted(terminal)
  \/ OrchPersistenceFails

\* The chat turn end to end: ThreadPage, ChatContainer and handleSSEStream
\* against the orchestrator.
Next == ClientStep \/ OrchStep

Spec == Init /\ [][Next]_vars

\* ------------------------------------------------- the wire protocol, as read
\* The lines of a body by the protocol alone: a line ends at each LF; the
\* rest after the last LF is a line once the body has ended.
LineEnds(s) == {i \in 1..Len(s) : s[i] = LF}

LineStart(s, j) ==
  LET before == {i \in LineEnds(s) : i < j} IN
    IF before = {} THEN 1 ELSE (CHOOSE i \in before : \A h \in before : h <= i) + 1

RECURSIVE LinesFrom(_, _)
LinesFrom(s, j) ==
  IF j > Len(s) THEN <<>>
  ELSE IF s[j] = LF THEN <<SubSeq(s, LineStart(s, j), j - 1)>> \o LinesFrom(s, j + 1)
  ELSE LinesFrom(s, j + 1)

WireLines(s, ended) ==
  LET rest == SubSeq(s, LineStart(s, Len(s) + 1), Len(s)) IN
    LinesFrom(s, 1) \o (IF ended /\ rest # <<>> THEN <<rest>> ELSE <<>>)

NotWhitespace(x) == x \notin Whitespace
Fields(line) == SelectSeq(line, NotWhitespace)

IsTokenEvent(line) == \E t \in TokenTexts : Fields(line) = <<DATA, t>>
IsEndEvent(line) == \E t \in EndTexts : Fields(line) = <<DATA, t>>
IsErrorEvent(line) == \E t \in ErrorTexts : Fields(line) = <<DATA, t>>

\* The contents of the token events before the first end event.
RECURSIVE TokensBeforeEnd(_)
TokensBeforeEnd(lines) ==
  IF lines = <<>> \/ IsEndEvent(Head(lines)) THEN <<>>
  ELSE (IF IsTokenEvent(Head(lines)) THEN <<TextOf(Fields(Head(lines))[2])>> ELSE <<>>)
         \o TokensBeforeEnd(Tail(lines))

IsOnToken(call) == call.cb = "onToken"
IsTerminal(call) == call.cb \in {"onComplete", "onError"}
RECURSIVE Args(_)
Args(cs) == IF cs = <<>> THEN <<>> ELSE <<Head(cs).arg>> \o Args(Tail(cs))
TokensDelivered == Args(SelectSeq(calls, IsOnToken))
Terminals == SelectSeq(calls, IsTerminal)
Returned == turnNo > 0 /\ hpc = "idle"

\* C1: the onToken calls of an invocation are exactly the contents of the
\* well-formed token events received before the end event, once each and in
\* stream order; empty lines, lines without `data:`, `[DONE]`, unparsable
\* JSON and events of another type lead to no call and do not stop the
\* events after them from being processed.
C1_TokensInOrder ==
  TokensDelivered = TokensBeforeEnd(WireLines(rcvd, sawDone))

\* C1 witness: an unparsable line, then a token event, and the token arrived.
C1_TokenAfterSkippedLine ==
  /\ Len(WireLines(rcvd, sawDone)) = 2
  /\ Fields(WireLines(rcvd, sawDone)[1]) = <<DATA, BadJson>>
  /\ IsTokenEvent(WireLines(rcvd, sawDone)[2])
  /\ TokensDelivered = <<<<"The ">>>>

\* C2: an invocation that was not aborted has made exactly one of onComplete
\* and onError, once, when it returns, and holds no reader lock; an aborted
\* one has made neither; once a terminal callback is made the function has
\* returned, so nothing is read after the end event.
C2_OneTerminalUnlessAborted ==
  /\ Returned /\ ~signalAborted => Len(Terminals) = 1 /\ ~readerLocked
  /\ Returned /\ signalAborted => Len(Terminals) = 0
  /\ Terminals # <<>> => hpc = "idle"

\* C3: an error event in the stream reaches onError with its message, leaves
\* the chat with the error set (the retry option), and onComplete is not called.
C3_ErrorEventReported ==
  (Returned /\ caught = "none"
     /\ \E i \in 1..Len(WireLines(rcvd, sawDone)) :
          /\ IsErrorEvent(WireLines(rcvd, sawDone)[i])
          /\ \A j \in 1..(i - 1) : ~IsEndEvent(WireLines(rcvd, sawDone)[j]))
  => /\ \E i \in 1..Len(calls), t \in ErrorTexts :
          /\ calls[i].cb = "onError" /\ calls[i].arg = <<MessageOf(t)>>
          /\ \E j \in 1..Len(WireLines(rcvd, sawDone)) :
               Fields(WireLines(rcvd, sawDone)[j]) = <<DATA, t>>
     /\ \A i \in 1..Len(calls) : calls[i].cb # "onComplete"
     /\ Truthy(error)

\* ------------------------------------------------- the turn, end to end
Last(seq) == seq[Len(seq)]
IsHuman(m) == m.role = "human"
IsAi(m) == m.role = "ai"
RECURSIVE Contents(_)
Contents(ms) == IF ms = <<>> THEN <<>> ELSE <<Head(ms).content>> \o Contents(Tail(ms))

\* The turn the client is in is the one the orchestrator served, generation
\* broke after at least one token, the partial answer was persisted and the
\* terminal event sent, and the client has read the response to its end.
InterruptedTurnOver ==
  /\ oconn = turnNo
  /\ ostate = "DONE"
  /\ ofailed
  /\ Returned
  /\ caught = "none"

\* C4: after generation is interrupted behind tokens t1..tn (n >= 1), the
\* stored assistant message is the concatenation t1..tn with the error flag,
\* the client has received the n tokens, and the displayed list ends in an ai
\* message with that content and metadata error = true.
C4_PartialAnswerFlagged ==
  InterruptedTurnOver =>
    /\ otokens # <<>>
    /\ Last(store) = Stored(ohuman + 1, "ai", Concat(otokens), "{error:true}")
    /\ TokensDelivered = otokens
    /\ displayMessages # <<>>
    /\ Last(displayMessages).sender = "ai"
    /\ Last(displayMessages).content = Concat(otokens)
    /\ Last(displayMessages).metadata = "{error:true}"

C6_TurnsSequential ==
  [][ /\ turnNo' # turnNo => ~isStreaming /\ hpc = "idle"
      /\ oconn' # oconn => ~Busy ]_vars

\* C6 witness: the second turn of the conversation is streaming, after the
\* first one ended with an error and was retried.
C6_SecondTurnStreaming ==
  /\ turnNo = 2
  /\ completions = 0
  /\ isStreaming
  /\ oconn = 2
  /\ ostate = "GENERATING"

\* The history response is still what the page loaded: no turn has touched
\* the list or the store, and the list is not the welcome message.
HistoryShown ==
  /\ view = "chat"
  /\ turnNo = 0
  /\ messages # <<>>
  /\ messages[1].message_id # WelcomeId

\* C8: the list the client builds from a history response has one message
\* per stored message, in append order, with the stored content; role human
\* is shown as sender user and every other role as sender ai.
C8_HistoryInAppendOrder ==
  HistoryShown =>
    /\ Len(messages) = Len(store)
    /\ \A i \in 1..Len(store) :
         /\ store[i].message_id = i - 1
         /\ messages[i].message_id = ServerId(i - 1)
         /\ messages[i].content = store[i].content
         /\ messages[i].sender = (IF store[i].role = "human" THEN "user" ELSE "ai")

\* C8 witness: a history of a human, a tool and an ai message is shown.
C8_ToolMessageShownAsAi ==
  /\ HistoryShown
  /\ Len(messages) = 3
  /\ store[2].role = "tool"
  /\ messages[2].sender = "ai"
  /\ messages[1].sender = "user"

RECURSIVE Roles(_)
Roles(ms) == IF ms = <<>> THEN <<>> ELSE <<Head(ms).role>> \o Roles(Tail(ms))

SenderOfRole(role) == IF role = "human" THEN "user" ELSE "ai"

\* Two turns of a new conversation, "Hello" and then "Continue", both
\* generated to their end, persisted, and ended by onComplete at the client.
TwoTurnsCompleted ==
  /\ turnNo = 2
  /\ Returned
  /\ completions = 2
  /\ oconn = 2
  /\ ostate = "DONE"
  /\ Len(checkpoints) = 2
  /\ \A i \in 1..Len(store) : IsAi(store[i]) => store[i].metadata = "{}"
  /\ Contents(SelectSeq(store, IsHuman)) = << <<"Hello">>, <<"Continue">> >>

\* ChatContainer commits an answer only if it is not empty or whitespace.
IsShownMessage(m) == ~(IsAi(m) /\ IsBlank(m.content))

\* C9 as stated: after the two turns the history is human, ai, human, ai and
\* the client's list is exactly these four messages in that order.
C9_ClientShowsFour ==
  TwoTurnsCompleted =>
    /\ Roles(store) = <<"human", "ai", "human", "ai">>
    /\ Len(messages) = 4
    /\ \A i \in 1..4 :
         /\ messages[i].content = store[i].content
         /\ messages[i].sender = SenderOfRole(store[i].role)

\* C9: after the two turns the history is human, ai, human, ai; the client's
\* list is the welcome message if the thread has a summary, followed by the
\* two user messages and every answer that is not empty or whitespace-only,
\* in history order.
C9_ClientShowsTurns ==
  TwoTurnsCompleted =>
    /\ Roles(store) = <<"human", "ai", "human", "ai">>
    /\ hasSummary => messages # <<>> /\ messages[1].message_id = WelcomeId
    /\ LET shown == IF hasSummary THEN Tail(messages) ELSE messages
           answered == SelectSeq(store, IsShownMessage) IN
         /\ Len(shown) = Len(answered)
         /\ \A i \in 1..Len(answered) :
              /\ shown[i].content = answered[i].content
              /\ shown[i].sender = SenderOfRole(answered[i].role)

\* C9 witness: the two turns are over in a thread with a summary; the list
\* has five messages.
C9_FiveWithWelcome ==
  /\ TwoTurnsCompleted
  /\ hasSummary
  /\ Len(messages) = 5
  /\ messages[5].content = <<"The ">>

\* The events of a turn whose persistence failed: its tokens, then the error.
EventsOfFailedPersistence ==
  [i \in 1..Len(otokens) |-> TokenEvent(otokens[i])] \o <<ErrorEvent("PersistenceFailed")>>

FailedBeforeToken ==
  /\ ostate = "ERRORED"
  /\ oevents # <<>>
  /\ Last(oevents).kind \in {"RetrievalFailed", "GenerationFailed"}

\* C11: a turn that fails in retrieval (after the one retry) or in generation
\* before the first token emits one event, the terminal error, and no token;
\* the store then ends in the turn's human message, without an assistant
\* message; a connected caller that read the response to its end got that one
\* event and no token; and no step of a turn changes or removes a message
\* that was stored before it.
C11_FailedTurnKeepsHistory ==
  [][ /\ FailedBeforeToken' =>
           /\ Len(oevents') = 1
           /\ otokens' = <<>>
           /\ Len(store') = ohuman' + 1
           /\ IsHuman(Last(store'))
           /\ (oconn' = turnNo' /\ hpc' = "idle" /\ caught' = "none") =>
                /\ rcvd' = Frame(Encode(Last(oevents')))
                /\ TokensDelivered' = <<>>
      /\ Len(store') >= Len(store)
      /\ SubSeq(store', 1, Len(store)) = store ]_vars

\* C11 witness: retrieval failed twice in the second turn of a conversation
\* with history; the client has read the error event.
C11_RetrievalFailedTwice ==
  /\ FailedBeforeToken
  /\ oretried
  /\ Last(oevents).kind = "RetrievalFailed"
  /\ oconn = turnNo
  /\ Returned
  /\ caught = "none"
  /\ Len(store) > 1

\* ------------------------------------------------- the turn's state machine
TurnStates == <<"IDLE", "RETRIEVING", "GENERATING", "PERSISTING", "DONE">>
Rank(s) == CHOOSE i \in 1..Len(TurnStates) : TurnStates[i] = s

\* The events a step emits.
Emitted ==
  IF Len(oevents') > Len(oevents)
    THEN SubSeq(oevents', Len(oevents) + 1, Len(oevents'))
    ELSE <<>>

\* C12: a turn moves one state forward along IDLE, RETRIEVING, GENERATING,
\* PERSISTING, DONE, or from a state other than DONE to ERRORED; within a turn
\* nothing leaves DONE or ERRORED and nothing more is emitted there; a state
\* changes only into the next one or into ERRORED (the next turn of the
\* conversation starts over, from IDLE into RETRIEVING, only after a terminal
\* state); token events are emitted in GENERATING only and `end` only by the
\* step that reaches DONE.
C12_TurnStateMachine ==
  [][ /\ ostate' # ostate =>
           IF oconn' # oconn
             THEN /\ ostate \in {"IDLE", "DONE", "ERRORED"}
                  /\ ostate' = "RETRIEVING"
                  /\ oevents' = <<>>
             ELSE \/ /\ ostate' = "ERRORED"
                     /\ ostate \in {"IDLE", "RETRIEVING", "GENERATING", "PERSISTING"}
                  \/ /\ ostate # "ERRORED"
                     /\ ostate' # "ERRORED"
                     /\ Rank(ostate') = Rank(ostate) + 1
      /\ oconn' # oconn => ostate' = "RETRIEVING" /\ ostate # ostate'
      /\ (ostate \in {"DONE", "ERRORED"} /\ oconn' = oconn) =>
           ostate' = ostate /\ oevents' = oevents
      /\ \A i \in 1..Len(Emitted) :
           /\ Emitted[i].type = "token" => ostate = "GENERATING" /\ ostate' = "GENERATING"
           /\ Emitted[i].type = "end" => ostate = "PERSISTING" /\ ostate' = "DONE" ]_vars

\* C12 witness: a turn went through every state and emitted tokens and `end`.
C12_TurnDone ==
  /\ ostate = "DONE"
  /\ Len(oevents) > 1
  /\ oevents[1].type = "token"
  /\ Last(oevents).type = "end"
  /\ ocontext = "fragments"

\* ------------------------------------------------- app.db and checkpoints.db
\* POST /threads: a row of `threads` with a new thread_id (a UUID).
create_thread(c) ==
  /\ c \notin app_threads
  /\ c \notin deleted
  /\ app_threads' = app_threads \cup {c}
  /\ UNCHANGED <<coreVars, app_messages, ckpt_rows, deleted, ingestVars, contextVars>>

\* A row of `messages`; its thread_id is a foreign key into `threads`.
insert_message(c) ==
  /\ c \in app_threads
  /\ app_messages[c] < MaxRows
  /\ app_messages' = [app_messages EXCEPT ![c] = @ + 1]
  /\ UNCHANGED <<coreVars, app_threads, ckpt_rows, deleted, ingestVars, contextVars>>

\* The agent's checkpointer writes a state snapshot of the thread.
put_checkpoint(c) ==
  /\ c \in app_threads
  /\ ckpt_rows[c] < MaxRows
  /\ ckpt_rows' = [ckpt_rows EXCEPT ![c] = @ + 1]
  /\ UNCHANGED <<coreVars, app_threads, app_messages, deleted, ingestVars, contextVars>>

\* DELETE /threads/{id}: the row of `threads` goes and, by ON DELETE CASCADE,
\* the thread's rows of `messages`; checkpoints.db is another database and
\* pruning its rows is not implemented.
delete_conversation(c) ==
  /\ c \in app_threads
  /\ app_threads' = app_threads \ {c}
  /\ app_messages' = [app_messages EXCEPT ![c] = 0]
  /\ deleted' = deleted \cup {c}
  /\ UNCHANGED <<coreVars, ckpt_rows, ingestVars, contextVars>>

InitDelete ==
  /\ Init
  /\ store = <<>>
  /\ ~hasSummary

NextDelete ==
  \/ \E c \in Conversations : create_thread(c)
  \/ \E c \in Conversations : insert_message(c)
  \/ \E c \in Conversations : put_checkpoint(c)
  \/ \E c \in Conversations : delete_conversation(c)

SpecDelete == InitDelete /\ [][NextDelete]_vars

\* C13: after delete_conversation(c) no message row and no checkpoint row
\* references c (so no state has only one of the two removed).
C13_NoRowReferencesDeleted ==
  \A c \in deleted : app_messages[c] = 0 /\ ckpt_rows[c] = 0

\* ------------------------------------------------- ingestion (POST /chat/init)
\* The transcript YouTubeTranscriptApi returns for a video.
Transcript(v) == IF v = "v1" THEN <<"a", "b", "c">> ELSE <<"d", "e">>

\* The text splitter: consecutive chunks of at most ChunkSize characters.
chunk(T) ==
  [i \in 1..((Len(T) + ChunkSize - 1) \div ChunkSize) |->
     SubSeq(T, (i - 1) * ChunkSize + 1,
            IF i * ChunkSize < Len(T) THEN i * ChunkSize ELSE Len(T))]

\* The documents of a video: id `{video_id}_chunk_{index}` with its metadata.
Documents(v) ==
  [i \in 1..Len(chunk(Transcript(v))) |->
     [id |-> <<v, "_chunk_", i - 1>>, video_id |-> v, chunk_index |-> i - 1,
      document |-> chunk(Transcript(v))[i]]]

HasId(coll, id) == \E i \in 1..Len(coll) : coll[i].id = id

RECURSIVE addAlways(_, _)
\* An add that stores every document, whatever its id.
addAlways(coll, docs) ==
  IF docs = <<>> THEN coll ELSE addAlways(Append(coll, Head(docs)), Tail(docs))

RECURSIVE add(_, _)
\* collection.add: a document whose id the collection holds is not added again.
add(coll, docs) ==
  IF docs = <<>> THEN coll
  ELSE add(IF HasId(coll, Head(docs).id) THEN coll ELSE Append(coll, Head(docs)),
           Tail(docs))

HasVideo(v) == \E i \in 1..Len(yt_video) : yt_video[i].video_id = v

\* Steps 1 and 2: the video id is extracted and looked up in `yt_video`.
init_check(r, v) ==
  /\ inits[r].pc = "idle"
  /\ initsStarted < MaxInits
  /\ initsStarted' = initsStarted + 1
  /\ inits' = [inits EXCEPT ![r] = [pc |-> IF HasVideo(v) THEN "thread" ELSE "ingest",
                                    video |-> v]]
  /\ UNCHANGED <<coreVars, deleteVars, yt_video, chroma, added, contextVars>>

\* Step 3, first half: transcript, chunks and embeddings go to ChromaDB; an
\* add of ids the collection holds already is ignored or raises.
init_store(r, raised) ==
  /\ inits[r].pc = "ingest"
  /\ raised => \E i \in 1..Len(chroma) : chroma[i].video_id = inits[r].video
  /\ IF raised
       THEN /\ inits' = [inits EXCEPT ![r] = NoInit]
            /\ UNCHANGED <<chroma, added>>
       ELSE /\ chroma' = add(chroma, Documents(inits[r].video))
            /\ added' = [added EXCEPT ![inits[r].video] = @ + 1]
            /\ inits' = [inits EXCEPT ![r].pc = "save"]
  /\ UNCHANGED <<coreVars, deleteVars, yt_video, initsStarted, contextVars>>

\* Step 3, second half: the row of `yt_video`; video_id is its primary key, so
\* the INSERT of a second row of the video fails and the request with it.
init_save(r) ==
  /\ inits[r].pc = "save"
  /\ IF HasVideo(inits[r].video)
       THEN /\ inits' = [inits EXCEPT ![r] = NoInit]
            /\ UNCHANGED yt_video
       ELSE /\ yt_video' = Append(yt_video, [video_id |-> inits[r].video,
                                             transcript |-> Transcript(inits[r].video)])
            /\ inits' = [inits EXCEPT ![r].pc = "thread"]
  /\ UNCHANGED <<coreVars, deleteVars, chroma, initsStarted, added, contextVars>>

\* Step 4: the new thread of the video.
init_thread(r) ==
  /\ inits[r].pc = "thread"
  /\ \E c \in Conversations :
       /\ c \notin app_threads
       /\ c \notin deleted
       /\ app_threads' = app_threads \cup {c}
  /\ inits' = [inits EXCEPT ![r] = NoInit]
  /\ UNCHANGED <<coreVars, app_messages, ckpt_rows, deleted, yt_video, chroma, initsStarted,
                 added, contextVars>>

InitIngest ==
  /\ Init
  /\ store = <<>>
  /\ ~hasSummary

NextIngest ==
  \/ \E r \in Requests, v \in Videos : init_check(r, v)
  \/ \E r \in Requests, raised \in BOOLEAN : init_store(r, raised)
  \/ \E r \in Requests : init_save(r)
  \/ \E r \in Requests : init_thread(r)

SpecIngest == InitIngest /\ [][NextIngest]_vars

\* The rows and the fragments stored for a video.
RowsOf(table, v) == SelectSeq(table, LAMBDA row : row.video_id = v)
FragmentsOf(coll, v) == SelectSeq(coll, LAMBDA doc : doc.video_id = v)

C15_EmptyRetrievalProceeds ==
  [][ /\ (ocontext # "empty" /\ ocontext' = "empty") =>
           /\ ostate = "RETRIEVING"
           /\ ostate' = "GENERATING"
           /\ oevents' = oevents
      /\ ocontext' = "empty" =>
           /\ ostate' \in {"GENERATING", "PERSISTING", "DONE", "ERRORED"}
           /\ ostate' = "ERRORED" =>
                Last(oevents').kind \in {"GenerationFailed", "PersistenceFailed"} ]_vars

\* C15 witness: a turn with no context was answered and persisted.
C15_AnsweredWithoutContext ==
  /\ ocontext = "empty"
  /\ ostate = "DONE"
  /\ otokens # <<>>
  /\ Last(oevents).type = "end"

\* ------------------------------------------------- input after a send
\* C16: when handleSendMessage has terminated (the stream completed, the
\* response was not OK, the network failed or the body ended), isStreaming is
\* false and the input accepts the next message.
C16_InputEnabledAfterSend ==
  (turnNo > 0 /\ hpc = "idle") =>
    /\ ~isStreaming
    /\ ~isLoading
    /\ ~isSubmitting
    /\ CanSubmit

\* C16 witness: one send ended with a completed stream, the next with an error.
C16_EnabledAfterCompleteAndError ==
  /\ turnNo = 2
  /\ hpc = "idle"
  /\ completions = 1
  /\ caught # "none"
  /\ Truthy(error)
  /\ CanSubmit

\* ------------------------------------------------- chat context (sidebar)
Thread(id, created_at) == [thread_id |-> id, created_at |-> created_at]

\* chatReducer whose ADD_THREAD does not look for the id in the list.
chatReducerNoDupCheck(state, action) ==
  CASE action.type = "SET_ACTIVE_THREAD" ->
         [state EXCEPT !.activeThreadId = action.threadId]
    [] action.type = "ADD_THREAD" ->
         [state EXCEPT !.threads = <<action.thread>> \o @]
    [] action.type = "REMOVE_THREAD" ->
         [state EXCEPT !.threads = SelectSeq(@, LAMBDA t : t.thread_id # action.threadId),
                       !.activeThreadId = IF @ = action.threadId THEN NoThread ELSE @]
    [] action.type = "SET_THREADS" ->
         [state EXCEPT !.threads = action.threads]
    [] OTHER -> state

\* chatReducer, on the fields `threads` and `activeThreadId`.
chatReducer(state, action) ==
  CASE action.type = "SET_ACTIVE_THREAD" ->
         [state EXCEPT !.activeThreadId = action.threadId]
    [] action.type = "ADD_THREAD" ->
         IF \E i \in 1..Len(state.threads) :
              state.threads[i].thread_id = action.thread.thread_id
           THEN state
           ELSE [state EXCEPT !.threads = <<action.thread>> \o @]
    [] action.type = "REMOVE_THREAD" ->
         [state EXCEPT !.threads = SelectSeq(@, LAMBDA t : t.thread_id # action.threadId),
                       !.activeThreadId = IF @ = action.threadId THEN NoThread ELSE @]
    [] action.type = "SET_THREADS" ->
         [state EXCEPT !.threads = action.threads]
    [] OTHER -> state

ChatState == [threads |-> threads, activeThreadId |-> activeThreadId]

RECURSIVE Dispatch(_, _)
Dispatch(state, actions) ==
  IF actions = <<>> THEN state
  ELSE Dispatch(chatReducer(state, Head(actions)), Tail(actions))

\* The dispatched actions are reduced into the context.
dispatch(actions) ==
  /\ threads' = Dispatch(ChatState, actions).threads
  /\ activeThreadId' = Dispatch(ChatState, actions).activeThreadId

\* GET /threads: the server's threads, most recent first.
ThreadsList ==
  [i \in 1..Len(srvThreads) |->
     Thread(srvThreads[Len(srvThreads) + 1 - i].thread_id,
            srvThreads[Len(srvThreads) + 1 - i].created_at)]

\* The server answers the GET /threads that loadThreads sent when ChatProvider
\* mounted.
getThreadsAnswered ==
  /\ loadThreads.pc = "sent"
  /\ loadThreads' = [pc |-> "answered", threads |-> ThreadsList]
  /\ UNCHANGED <<coreVars, deleteVars, ingestVars, threads, activeThreadId, srvThreads,
                 route, visited, clock, threadLoads>>

\* getThreads settles: the list of the response, [] when the request failed.
loadThreadsSettled(ok) ==
  /\ loadThreads.pc \in {"sent", "answered"}
  /\ ok => loadThreads.pc = "answered"
  /\ dispatch(<<[type |-> "SET_THREADS",
                 threads |-> IF ok THEN loadThreads.threads ELSE <<>>]>>)
  /\ loadThreads' = [pc |-> "done", threads |-> <<>>]
  /\ UNCHANGED <<coreVars, deleteVars, ingestVars, srvThreads, route, visited, clock,
                 threadLoads>>

\* NewChatPage.handleSubmit: the thread is created and added to the context
\* with created_at = new Date(); the router goes to its page.
NewChat ==
  /\ route = NoThread
  /\ Len(srvThreads) < MaxThreads
  /\ clock < MaxClock
  /\ clock' = clock + 1
  /\ LET id == Len(srvThreads) + 1 IN
       /\ srvThreads' = Append(srvThreads, [thread_id |-> id, created_at |-> clock',
                                             first |-> 0])
       /\ dispatch(<<[type |-> "ADD_THREAD", thread |-> Thread(id, clock')],
                     [type |-> "SET_ACTIVE_THREAD", threadId |-> id]>>)
       /\ route' = id
       /\ visited' = visited \cup {id}
  /\ UNCHANGED <<coreVars, deleteVars, ingestVars, loadThreads, threadLoads>>

\* The first message of the thread whose page is shown is stored.
FirstMessage ==
  /\ route # NoThread
  /\ srvThreads[route].first = 0
  /\ clock < MaxClock
  /\ clock' = clock + 1
  /\ srvThreads' = [srvThreads EXCEPT ![route].first = clock']
  /\ UNCHANGED <<coreVars, deleteVars, ingestVars, threads, activeThreadId, loadThreads,
                 route, visited, threadLoads>>

\* ThreadPage's effect for a thread of the sidebar or of the tab's history:
\* the thread becomes the active one; a thread of the context is shown as it
\* is, otherwise loadThreadData is called.
ThreadPageEffect(threadId) ==
  /\ threadId \in visited \cup {threads[i].thread_id : i \in 1..Len(threads)}
  /\ threadId # route
  /\ route' = threadId
  /\ dispatch(<<[type |-> "SET_ACTIVE_THREAD", threadId |-> threadId]>>)
  /\ IF \E i \in 1..Len(threads) : threads[i].thread_id = threadId
       THEN UNCHANGED threadLoads
       ELSE /\ Len(threadLoads) < MaxLoads
            /\ threadLoads' = Append(threadLoads, threadId)
  /\ visited' = visited \cup {threadId}
  /\ UNCHANGED <<coreVars, deleteVars, ingestVars, loadThreads, srvThreads, clock>>

\* loadThreadData settles: it builds the thread, created_at being that of its
\* first message or else new Date(), and adds it to the context; when a
\* request failed the router goes to /chat.
loadThreadData(i, ok) ==
  /\ i \in 1..Len(threadLoads)
  /\ threadLoads' = SubSeq(threadLoads, 1, i - 1)
                      \o SubSeq(threadLoads, i + 1, Len(threadLoads))
  /\ IF ok
       THEN /\ clock < MaxClock
            /\ clock' = clock + 1
            /\ LET threadId == threadLoads[i]
                   first == srvThreads[threadId].first
                   threadData == Thread(threadId, IF first # 0 THEN first ELSE clock') IN
                 dispatch(<<[type |-> "ADD_THREAD", thread |-> threadData]>>)
            /\ UNCHANGED route
       ELSE /\ route' = NoThread
            /\ UNCHANGED <<clock, threads, activeThreadId>>
  /\ UNCHANGED <<coreVars, deleteVars, ingestVars, loadThreads, srvThreads, visited>>

\* "New Chat": the router goes to /chat.
NewChatPage ==
  /\ route # NoThread
  /\ route' = NoThread
  /\ UNCHANGED <<coreVars, deleteVars, ingestVars, threads, activeThreadId, loadThreads,
                 srvThreads, visited, clock, threadLoads>>

InitContext ==
  /\ Init
  /\ store = <<>>
  /\ ~hasSummary

NextContext ==
  \/ getThreadsAnswered
  \/ \E ok \in BOOLEAN : loadThreadsSettled(ok)
  \/ NewChat
  \/ FirstMessage
  \/ \E threadId \in 1..MaxThreads : ThreadPageEffect(threadId)
  \/ \E i \in 1..MaxLoads, ok \in BOOLEAN : loadThreadData(i, ok)
  \/ NewChatPage

SpecContext == InitContext /\ [][NextContext]_vars

\* C17: the thread list of the chat context is sorted by created_at, most
\* recent first.
C17_ThreadsSortedByCreatedAt ==
  \A i, j \in 1..Len(threads) :
    i < j => threads[i].created_at >= threads[j].created_at

\* ------------------------------------------------- optimistic update
\* C18: the user message is in the list from the submit on, and when the send
\* has failed it is removed again: the list is the list before the submit.
C18_OptimisticRollback ==
  turnNo > 0 =>
    /\ hpc # "idle" =>
         /\ userPos \in 1..Len(messages)
         /\ messages[userPos].sender = "user"
    /\ (hpc = "idle" /\ Truthy(error)) => Len(messages) = userPos - 1

\* ------------------------------------------------- error messages
FixedMessages == {errorMessages[k] : k \in DOMAIN errorMessages}

\* C19: the error shown to the user is one of the fixed errorMessages entries,
\* whatever the server's detail text or the thrown Error's message was.
C19_ErrorIsFixedMessage ==
  Truthy(error) => error \in FixedMessages

\* ------------------------------------------------- end of the body
\* The body that has ended holds no end event, its unterminated last line
\* included.
EndedWithoutEnd ==
  /\ sawDone
  /\ \A i \in 1..Len(WireLines(rcvd, TRUE)) : ~IsEndEvent(WireLines(rcvd, TRUE)[i])

C21_CompletionCommitsAnswer ==
  [][ completions' = completions + 1 =>
        /\ streamingContent' = <<>>
        /\ aiContent' = Concat(TokensDelivered')
        /\ IF \E i \in 1..Len(aiContent') : aiContent'[i] \notin Whitespace
             THEN /\ Len(messages') = Len(messages) + 1
                  /\ SubSeq(messages', 1, Len(messages)) = messages
                  /\ Last(messages').sender = "ai"
                  /\ Last(messages').content = Concat(TokensDelivered')
                  /\ Len(messages) = userPos
                  /\ messages'[userPos].sender = "user"
             ELSE messages' = messages ]_vars

\* C21 witness: "The " and " " were received and the committed answer ends in
\* the blank.
C21_UntrimmedAnswer ==
  /\ hpc = "idle"
  /\ completions = 1
  /\ TokensDelivered = << <<"The ">>, <<" ">> >>
  /\ Last(messages).sender = "ai"
  /\ Last(messages).content = <<"The ", " ">>
  /\ streamingContent = <<>>

\* ------------------------------------------------- non-OK response
\* C22: when fetch has resolved with a non-OK response, handleSSEStream makes
\* no call while the error body is read and then returns with one call made,
\* onError with the response's detail, else its message, else the HTTP status
\* line; nothing of the body is read as an event stream.
C22_NonOkReportedOnce ==
  [][ /\ hpc' = "errbody" =>
           /\ calls' = <<>>
           /\ rcvd' = <<>>
           /\ ~readerLocked'
      /\ (hpc = "errbody" /\ hpc' # "errbody") =>
           /\ hpc' = "idle"
           /\ Len(calls') = 1
           /\ calls'[1].cb = "onError"
           /\ calls'[1].arg \in {<<"Thread not found">>, <<"Bad request">>,
                                 <<HttpStatusText>>}
           /\ rcvd' = <<>>
           /\ ~sawDone'
           /\ ~readerLocked' ]_vars

\* ------------------------------------------------- distinct thread ids
\* The actions of the reducer that do not carry a list: every thread and
\* every thread id of the model, and the two actions on the other fields.
ChatActions ==
  {[type |-> "ADD_THREAD", thread |-> Thread(id, t)] : id \in 1..MaxThreads, t \in 0..MaxClock}
    \cup {[type |-> "REMOVE_THREAD", threadId |-> id] : id \in 1..MaxThreads}
    \cup {[type |-> "SET_ACTIVE_THREAD", threadId |-> id] : id \in 0..MaxThreads}
    \cup {[type |-> "TOGGLE_SIDEBAR"], [type |-> "SET_PROCESSING"]}

DistinctIds(list) ==
  \A i, j \in 1..Len(list) : i # j => list[i].thread_id # list[j].thread_id

\* C23: the threads of the chat context have pairwise distinct thread_ids, an
\* ADD_THREAD of an id that is in the list leaves the state unchanged, and
\* every action of the reducer that carries no list keeps the ids distinct.
C23_ThreadIdsDistinct ==
  /\ DistinctIds(threads)
  /\ \A i \in 1..Len(threads), t \in 0..MaxClock :
       chatReducer(ChatState, [type |-> "ADD_THREAD",
                               thread |-> Thread(threads[i].thread_id, t)]) = ChatState
  /\ \A a \in ChatActions : DistinctIds(chatReducer(ChatState, a).threads)

\* C23 witness: thread 1, without messages, was dropped from the context by
\* the list load, then two loadThreadData calls for it settled: the first
\* added it with created_at 2, the second, at time 3, found it in the list.
C23_AddedTwice ==
  /\ Len(srvThreads) = 1
  /\ srvThreads[1].first = 0
  /\ threadLoads = <<>>
  /\ clock = 3
  /\ threads = <<Thread(1, 2)>>

\* ------------------------------------------------- chunking
\* The calls handleSSEStream makes when reader.read() delivers the body s in
\* one chunk and then done.
OneChunkCalls(s) ==
  LET lines == SplitLines(s)
      cs == processLines(SubSeq(lines, 1, Len(lines) - 1))
      rest == IF KeptBuffer(lines) # <<>> THEN processLine(KeptBuffer(lines)) ELSE <<>> IN
    IF Completes(cs) THEN cs
    ELSE IF Completes(rest) THEN cs \o rest
    ELSE cs \o rest \o <<Call("onComplete", NoText, NoErr)>>

IsPrefix(s, t) == Len(s) <= Len(t) /\ SubSeq(t, 1, Len(s)) = s

\* C24: for an OK response read without a failure, whatever the chunks, the
\* calls made so far are a prefix of the calls of the one-chunk delivery of
\* the same body, and when handleSSEStream has returned they are those calls.
C24_ChunkingIndependent ==
  (turnNo > 0 /\ resp = "ok" /\ caught = "none" /\ hpc \in {"read", "idle"}) =>
    /\ IsPrefix(calls, OneChunkCalls(rcvd \o wire))
    /\ hpc = "idle" => calls = OneChunkCalls(rcvd \o wire)

\* C24 witness: the body `data:<token>\r\n` and a token line without a line
\* feed arrived in chunks, one of which ended between the \r and the \n, and
\* both tokens were delivered before the completion.
C24_SplitInsideCRLF ==
  /\ hpc = "idle"
  /\ caught = "none"
  /\ rcvd = <<DATA, TokVideo, CR, LF, DATA, SP, TokBlank>>
  /\ splitCRLF
  /\ Len(calls) = 3
  /\ calls[1].arg = <<"video ">>
  /\ calls[2].arg = <<" ">>
  /\ calls[3].cb = "onComplete"

\* ------------------------------------------------- terminal callback
\* C25: a call of onComplete or onError is the last call of an invocation and
\* handleSSEStream has returned with it; the onToken calls are contents of
\* token events that precede the first end event of the body, so a token
\* event behind an end event, read or still to be read, is never delivered.
C25_TerminalIsFinal ==
  /\ \A i \in 1..Len(calls) :
       IsTerminal(calls[i]) => (i = Len(calls) /\ hpc = "idle")
  /\ resp = "ok" =>
       IsPrefix(TokensDelivered, TokensBeforeEnd(WireLines(rcvd \o wire, TRUE)))

\* C25 witness: the body is an end event followed by a token event, both
\* read in the same chunk; onComplete is the only call.
C25_TokenBehindEndSameChunk ==
  /\ hpc = "idle"
  /\ rcvd = <<DATA, SP, EndPlain, LF, DATA, SP, TokThe, LF>>
  /\ calls = <<Call("onComplete", NoText, NoErr)>>

\* ------------------------------------------------- error and streaming
\* C26: when the error is set, isStreaming is false and no handleSSEStream
\* is running; a send, from the input or from Retry, starts only when none is
\* running, and it clears the error and sets isStreaming.
C26_ErrorExcludesStreaming ==
  [][ /\ error' # NullError => (~isStreaming' /\ hpc' = "idle")
      /\ turnNo' # turnNo =>
           /\ hpc = "idle"
           /\ ~isStreaming
           /\ hpc' = "fetch"
           /\ isStreaming'
           /\ error' = NullError ]_vars

\* C26 witness: the first send failed and Retry has started the second one,
\* with the content of the first; the error is cleared while it streams.
C26_RetryStreaming ==
  /\ turnNo = 2
  /\ hpc = "read"
  /\ req = NoRequest
  /\ Last(messages).sender = "user"
  /\ Last(messages).content = <<UserScript[1]>>
  /\ isStreaming
  /\ error = NullError
  /\ streamingContent # <<>>

\* ------------------------------------------------- what ChatMessages shows
\* The streamingMessageId prop: isStreaming && streamingContent.
HasStreamingMessageId == isStreaming /\ streamingContent # <<>>

\* ChatMessages renders <TypingIndicator />.
TypingIndicatorShown ==
  ~isLoading /\ Len(displayMessages) # 0 /\ isStreaming /\ ~HasStreamingMessageId

\* displayMessages ends with the `streaming-message` bubble.
StreamingBubbleShown ==
  /\ Len(displayMessages) = Len(messages) + 1
  /\ Last(displayMessages).message_id = StreamingId

\* The ai messages handleSendMessage has committed for the current turn.
CommittedAnswers ==
  SelectSeq(messages, LAMBDA m : m.sender = "ai" /\ m.message_id = Uuid(2 * turnNo))

\* C27 as stated: the streaming bubble and the committed ai message of the
\* turn are never both displayed, and the typing indicator is shown exactly
\* when isStreaming is true and no token has been received.
C27_IndicatorUntilFirstToken ==
  turnNo > 0 =>
    /\ Len(CommittedAnswers) + (IF StreamingBubbleShown THEN 1 ELSE 0) <= 1
    /\ ~(TypingIndicatorShown /\ StreamingBubbleShown)
    /\ TypingIndicatorShown <=> (isStreaming /\ TokensDelivered = <<>>)

\* C27: the streaming bubble and the committed ai message of the turn are
\* never both displayed, and the typing indicator is shown exactly when
\* isStreaming is true and the tokens received so far make the empty text.
C27_IndicatorUntilFirstText ==
  turnNo > 0 =>
    /\ Len(CommittedAnswers) + (IF StreamingBubbleShown THEN 1 ELSE 0) <= 1
    /\ ~(TypingIndicatorShown /\ StreamingBubbleShown)
    /\ TypingIndicatorShown <=> (isStreaming /\ Concat(TokensDelivered) = <<>>)
    /\ (isStreaming /\ Concat(TokensDelivered) # <<>>) =>
         /\ StreamingBubbleShown
         /\ Last(displayMessages).content = Concat(TokensDelivered)

\* C27 witness: a token with the empty text, then a token with text have
\* arrived; the bubble shows the text and the indicator is gone.
C27_BubbleAfterEmptyToken ==
  /\ hpc = "read"
  /\ isStreaming
  /\ TokensDelivered = << <<>>, <<"The ">> >>
  /\ StreamingBubbleShown
  /\ ~TypingIndicatorShown
  /\ CommittedAnswers = <<>>

\* ------------------------------------------------- retry
\* C28: a Retry re-sends the content of the last user message without
\* duplicating it: after handleRetry the list ends with that user message,
\* which is in it once, the messages before it are unchanged, and one request
\* with that content has been issued.
C28_RetryDoesNotDuplicate ==
  [][ ( /\ RetryShown
        /\ LastUserIndex(messages) > 0
        /\ turnNo' = turnNo + 1
        /\ req' = messages[LastUserIndex(messages)].content[1] ) =>
      LET index == LastUserIndex(messages) IN
        /\ Len(messages') = index
        /\ SubSeq(messages', 1, index - 1) = SubSeq(messages, 1, index - 1)
        /\ messages'[index].sender = "user"
        /\ messages'[index].content = messages[index].content
        /\ hpc' = "fetch"
        /\ req = NoRequest ]_vars

====
